---------------------------- MODULE Spec2Model ----------------------------
(***************************************************************************)
(* Model of the Airstack GraphQL client (src/airstack/airstack.go):        *)
(* SendRequest, AirstackClient.ExecuteQuery and                            *)
(* AirstackClient.GetTokenBalances, one call at a time.                    *)
(*                                                                         *)
(* Text (error strings, raw JSON) is a sequence of tokens.  A JSON value   *)
(* is a record tagged by t: "null", "str", "num", "bool", "arr", "obj".  A *)
(* response body is either bytes that are not JSON or the JSON value they  *)
(* hold.                                                                   *)
(***************************************************************************)
EXTENDS Integers, Sequences, FiniteSets, TLC

\* Longest TokenBalance array a modelled server answers with.
MaxRecords == 2

\* const successStatusCode
successStatusCode == 200

\* const apiEndpointProd
apiEndpointProd == "https://api.airstack.xyz/gql"

(***************************************************************************)
(* JSON values                                                             *)
(***************************************************************************)
JNull == [t |-> "null"]
JStr(s) == [t |-> "str", s |-> s]
\* A JSON number, n its text.
JNum(n) == [t |-> "num", n |-> n]
JBool(b) == [t |-> "bool", b |-> b]
JArr(items) == [t |-> "arr", items |-> items]
JObj(fields) == [t |-> "obj", fields |-> fields]

EmptyFields == [k \in {} |-> JNull]

HasKey(v, k) == v.t = "obj" /\ k \in DOMAIN v.fields

\* A nil []byte / nil json.RawMessage: no bytes at all (not the JSON null).
NilBytes == [t |-> "nil"]

\* Bytes that are not a JSON document.
Garbage == [t |-> "garbage"]

\* nil error
NilErr == "nil"

\* nil *QueryResponse
NilResponse == [nil |-> TRUE]

\* nil func() (*QueryResponse, error)
NilFunc == "nil"

\* nil []TokenBalance
NilBalances == <<>>

(***************************************************************************)
(* The JSON text of a value: what a json.RawMessage of it holds, and what  *)
(* string(raw) yields.                                                     *)
(***************************************************************************)
RECURSIVE SerializeItems(_), SerializeFields(_, _), Serialize(_)
SerializeItems(items) ==
    IF items = <<>> THEN <<>>
    ELSE Serialize(Head(items))
         \o (IF Len(items) > 1 THEN <<",">> ELSE <<>>)
         \o SerializeItems(Tail(items))

SerializeFields(fields, keys) ==
    IF keys = {} THEN <<>>
    ELSE LET k == CHOOSE x \in keys : TRUE
         IN  <<"\"", k, "\"", ":">> \o Serialize(fields[k])
             \o (IF keys = {k} THEN <<>> ELSE <<",">>)
             \o SerializeFields(fields, keys \ {k})

Serialize(v) ==
    CASE v.t = "null" -> <<"null">>
      [] v.t = "str"  -> <<"\"", v.s, "\"">>
      [] v.t = "num"  -> <<v.n>>
      [] v.t = "bool" -> IF v.b THEN <<"true">> ELSE <<"false">>
      [] v.t = "arr"  -> <<"[">> \o SerializeItems(v.items) \o <<"]">>
      [] v.t = "obj"  -> <<"{">> \o SerializeFields(v.fields, DOMAIN v.fields) \o <<"}">>

(***************************************************************************)
(* fmt.Sprintf verbs                                                       *)
(***************************************************************************)
Digit(d) == <<"0", "1", "2", "3", "4", "5", "6", "7", "8", "9">>[d + 1]

\* %d of a non-negative int
RECURSIVE FormatInt(_)
FormatInt(n) ==
    IF n < 10 THEN <<Digit(n)>> ELSE FormatInt(n \div 10) \o <<Digit(n % 10)>>

\* %s of an error value; a nil error prints as %!s(<nil>)
FormatErr(err) == IF err = NilErr THEN <<"%!s(<nil>)">> ELSE <<err>>

\* fmt.Sprintf("HTTP error: %s, Status Code: %d", err, statusCode)
HTTPErrorString(err, statusCode) ==
    <<"HTTP error: ">> \o FormatErr(err) \o <<", Status Code: ">> \o FormatInt(statusCode)

\* strings.Contains on token text
Contains(text, sub) ==
    \E i \in 0..(Len(text) - Len(sub)) :
        \A j \in 1..Len(sub) : text[i + j] = sub[j]

(***************************************************************************)
(* json.Unmarshal at its three call sites.  Each yields [err, val].        *)
(***************************************************************************)
ErrSyntax == "unexpected end of JSON input"
ErrInvalid == "invalid character looking for beginning of value"
ErrType == "json: cannot unmarshal value into Go value"

\* json.Unmarshal(bytes, &m) for a map m: an object fills the map, null leaves it
\* nil, any other JSON value is a type error, anything else a syntax error.
UnmarshalMap(bytes) ==
    CASE bytes.t = "nil"     -> [err |-> ErrSyntax, val |-> EmptyFields]
      [] bytes.t = "garbage" -> [err |-> ErrInvalid, val |-> EmptyFields]
      [] bytes.t = "null"    -> [err |-> NilErr, val |-> EmptyFields]
      [] bytes.t = "obj"     -> [err |-> NilErr, val |-> bytes.fields]
      [] OTHER               -> [err |-> ErrType, val |-> EmptyFields]

ZeroTokenBalance ==
    [Amount |-> "", FormattedAmount |-> "", Blockchain |-> "",
     TokenAddress |-> "", TokenId |-> ""]

\* A string field tagged json:"key": absent or null keeps the zero value, a JSON
\* string is stored, any other value is a type error.
StringField(obj, key) ==
    IF ~HasKey(obj, key) THEN [err |-> NilErr, val |-> ""]
    ELSE LET v == obj.fields[key]
         IN  CASE v.t = "str"  -> [err |-> NilErr, val |-> v.s]
               [] v.t = "null" -> [err |-> NilErr, val |-> ""]
               [] OTHER        -> [err |-> ErrType, val |-> ""]

\* UnmarshalTokenBalance with TokenId read from the tokenAddress key (a wrong
\* struct tag).
UnmarshalTokenBalance_WrongTag(v) ==
    CASE v.t = "null" -> [err |-> NilErr, val |-> ZeroTokenBalance]
      [] v.t = "obj"  ->
            LET a == StringField(v, "amount")
                f == StringField(v, "formattedAmount")
                b == StringField(v, "blockchain")
                x == StringField(v, "tokenAddress")
                errs == {a.err, f.err, b.err, x.err} \ {NilErr}
            IN  [err |-> IF errs = {} THEN NilErr ELSE ErrType,
                 val |-> [Amount |-> a.val, FormattedAmount |-> f.val,
                          Blockchain |-> b.val, TokenAddress |-> x.val,
                          TokenId |-> x.val]]
      [] OTHER        -> [err |-> ErrType, val |-> ZeroTokenBalance]

\* One element of []TokenBalance.
UnmarshalTokenBalance(v) ==
    CASE v.t = "null" -> [err |-> NilErr, val |-> ZeroTokenBalance]
      [] v.t = "obj"  ->
            LET a == StringField(v, "amount")
                f == StringField(v, "formattedAmount")
                b == StringField(v, "blockchain")
                x == StringField(v, "tokenAddress")
                i == StringField(v, "tokenId")
                errs == {a.err, f.err, b.err, x.err, i.err} \ {NilErr}
            IN  [err |-> IF errs = {} THEN NilErr ELSE ErrType,
                 val |-> [Amount |-> a.val, FormattedAmount |-> f.val,
                          Blockchain |-> b.val, TokenAddress |-> x.val,
                          TokenId |-> i.val]]
      [] OTHER        -> [err |-> ErrType, val |-> ZeroTokenBalance]

\* The field TokenBalance []TokenBalance `json:"TokenBalance"`.
UnmarshalTokenBalanceSlice(obj) ==
    IF ~HasKey(obj, "TokenBalance") THEN [err |-> NilErr, val |-> NilBalances]
    ELSE LET v == obj.fields["TokenBalance"]
         IN  CASE v.t = "null" -> [err |-> NilErr, val |-> NilBalances]
               [] v.t = "arr"  ->
                     LET each == [k \in 1..Len(v.items) |-> UnmarshalTokenBalance(v.items[k])]
                     IN  [err |-> IF \A k \in 1..Len(each) : each[k].err = NilErr
                                  THEN NilErr ELSE ErrType,
                          val |-> [k \in 1..Len(each) |-> each[k].val]]
               [] OTHER        -> [err |-> ErrType, val |-> NilBalances]

\* UnmarshalRespData that takes absent data for an empty result.
UnmarshalRespData_NilIsEmpty(data) ==
    CASE data.t \in {"nil", "null"} -> [err |-> NilErr, val |-> NilBalances]
      [] data.t = "garbage" -> [err |-> ErrInvalid, val |-> NilBalances]
      [] data.t = "obj"     ->
            IF ~HasKey(data, "TokenBalances") THEN [err |-> NilErr, val |-> NilBalances]
            ELSE LET tb == data.fields["TokenBalances"]
                 IN  CASE tb.t = "null" -> [err |-> NilErr, val |-> NilBalances]
                       [] tb.t = "obj"  -> UnmarshalTokenBalanceSlice(tb)
                       [] OTHER         -> [err |-> ErrType, val |-> NilBalances]
      [] OTHER              -> [err |-> ErrType, val |-> NilBalances]

\* json.Unmarshal(resp.Data, &respData) for the anonymous struct
\* { TokenBalances struct { TokenBalance []TokenBalance } }.
UnmarshalRespData(data) ==
    CASE data.t = "nil"     -> [err |-> ErrSyntax, val |-> NilBalances]
      [] data.t = "garbage" -> [err |-> ErrInvalid, val |-> NilBalances]
      [] data.t = "null"    -> [err |-> NilErr, val |-> NilBalances]
      [] data.t = "obj"     ->
            IF ~HasKey(data, "TokenBalances") THEN [err |-> NilErr, val |-> NilBalances]
            ELSE LET tb == data.fields["TokenBalances"]
                 IN  CASE tb.t = "null" -> [err |-> NilErr, val |-> NilBalances]
                       [] tb.t = "obj"  -> UnmarshalTokenBalanceSlice(tb)
                       [] OTHER         -> [err |-> ErrType, val |-> NilBalances]
      [] OTHER              -> [err |-> ErrType, val |-> NilBalances]

(***************************************************************************)
(* What the caller passes and what the server may answer.                  *)
(***************************************************************************)
Operations == {"ExecuteQuery", "GetTokenBalances"}

\* AirstackClient values: NewAirstackClient sets URL to apiEndpointProd; URL is an
\* exported field, so a caller may hold a client whose URL does not parse.
BadURL == "://not a url"
Clients == [APIKey : {"your_api_key_here", "Bearer k2"}, URL : {apiEndpointProd, BadURL}]

\* ctx: a live context, one already cancelled, or a nil context.
Contexts == {"live", "cancelled", "nil"}

\* variables: the documented keys, the same without identity, and a map holding a
\* value encoding/json cannot encode (a channel, a NaN).
FullVariables == {"identity", "tokenType", "blockchain", "limit"}
VariableMaps == {FullVariables, FullVariables \ {"identity"}, FullVariables \cup {"unsupported"}}

Statuses == {200, 204, 422, 500}

TokenBalanceQuery == "query GetTokensHeldByWalletAddress"
Queries == {TokenBalanceQuery, "query Other"}

Rec1 ==
    JObj(("amount" :> JStr("100")) @@ ("formattedAmount" :> JStr("1.0"))
         @@ ("blockchain" :> JStr("ethereum")) @@ ("tokenAddress" :> JStr("0xabc"))
         @@ ("tokenId" :> JStr("")))
Rec2 ==
    JObj(("amount" :> JStr("250")) @@ ("formattedAmount" :> JStr("2.5"))
         @@ ("blockchain" :> JStr("polygon")) @@ ("tokenAddress" :> JStr("0xdef"))
         @@ ("tokenId" :> JStr("7")))
\* amount is a JSON number, not a string
RecBadType ==
    JObj(("amount" :> JNum("100")) @@ ("formattedAmount" :> JStr("1.0"))
         @@ ("blockchain" :> JStr("ethereum")) @@ ("tokenAddress" :> JStr("0xabc"))
         @@ ("tokenId" :> JStr("")))
ServedRecords == {Rec1, Rec2, RecBadType}

RecordLists == UNION {[1..n -> ServedRecords] : n \in 0..MaxRecords}

PageInfos ==
    {JObj(("hasNextPage" :> JBool(TRUE)) @@ ("hasPrevPage" :> JBool(FALSE))),
     JObj(("hasNextPage" :> JBool(FALSE)) @@ ("hasPrevPage" :> JBool(TRUE)))}

DataValues ==
    {JNull, JStr("oops"), JObj(EmptyFields),
     JObj("TokenBalances" :> JStr("oops")),
     JObj("TokenBalances" :> JObj("TokenBalance" :> JNull))}
    \cup {JObj("TokenBalances" :> JObj("TokenBalance" :> JArr(l))) : l \in RecordLists}
    \cup {JObj("TokenBalances" :> JObj(("TokenBalance" :> JArr(l)) @@ ("pageInfo" :> p))) :
             l \in RecordLists, p \in PageInfos}

ErrorsValues ==
    {JNull, JStr(""), JArr(<<>>), JArr(<<JObj("message" :> JStr("Variable identity is required"))>>)}

Bodies ==
    {Garbage, JNull, JArr(<<>>), JObj(EmptyFields), JObj("message" :> JStr("bad request"))}
    \cup {JObj("data" :> d) : d \in DataValues}
    \cup {JObj("errors" :> e) : e \in ErrorsValues}
    \cup {JObj(("data" :> d) @@ ("errors" :> e)) :
             d \in {JNull, JObj("TokenBalances" :> JObj("TokenBalance" :> JArr(<<Rec1>>)))},
             e \in ErrorsValues}

(***************************************************************************)
(* State                                                                   *)
(***************************************************************************)
VARIABLES
    pc,          \* where the call in progress stands
    op,          \* the public operation the caller invoked
    client,      \* the AirstackClient receiver
    ctx,         \* the ctx argument
    query,       \* the query argument of ExecuteQuery
    variables,   \* the variables argument
    body,        \* ExecuteQuery's local body: the encoded request
    req,         \* SendRequest's local req
    doCalls,     \* the requests handed to client.Do during this call, in order
    transport,   \* how far the exchange got: "none", "doFailed", "readFailed", "complete"
    respStatus,  \* resp.StatusCode of the response client.Do returned
    respBody,    \* the bytes the server sent as the body
    response,    \* SendRequest's result response
    statusCode,  \* SendRequest's result statusCode
    err,         \* SendRequest's result err
    queryResp,   \* ExecuteQuery's result *QueryResponse
    queryErr,    \* ExecuteQuery's result error
    balances,    \* GetTokenBalances's result []TokenBalance
    balancesErr  \* GetTokenBalances's result error

vars == <<pc, op, client, ctx, query, variables, body, req, doCalls, transport, respStatus,
          respBody, response, statusCode, err, queryResp, queryErr, balances, balancesErr>>

callVars == <<op, client, ctx, query, variables>>
sendVars == <<req, transport, respStatus, respBody, response, statusCode, err>>
queryVars == <<queryResp, queryErr>>
wrapVars == <<balances, balancesErr>>

NoBody == [query |-> "", variables |-> {}]
NoRequest == [method |-> "", url |-> "", headers |-> EmptyFields, body |-> NoBody]

Init ==
    /\ pc = "idle"
    /\ op = "ExecuteQuery"
    /\ client = [APIKey |-> "your_api_key_here", URL |-> apiEndpointProd]
    /\ ctx = "live"
    /\ query = ""
    /\ variables = {}
    /\ body = NoBody
    /\ req = NoRequest
    /\ doCalls = <<>>
    /\ transport = "none"
    /\ respStatus = 0
    /\ respBody = NilBytes
    /\ response = NilBytes
    /\ statusCode = 0
    /\ err = NilErr
    /\ queryResp = NilResponse
    /\ queryErr = NilErr
    /\ balances = NilBalances
    /\ balancesErr = NilErr

\* Where control goes when ExecuteQuery returns: to GetTokenBalances line 100 when
\* it was called from there, else to the caller.
AfterExecuteQuery == IF op = "GetTokenBalances" THEN "decode" ELSE "returned"

(***************************************************************************)
(* SendRequest                                                             *)
(***************************************************************************)
ErrNilContext == "net/http: nil Context"
ErrParseURL == "parse: missing protocol scheme"
ErrCanceled == "context canceled"
ErrRefused == "dial tcp: connection refused"
ErrTimeout == "context deadline exceeded (Client.Timeout exceeded)"
ErrRead == "unexpected EOF"
ErrMarshal == "json: unsupported type"

DoErrors == {ErrRefused, ErrTimeout, ErrCanceled}
ReadErrors == {ErrRead, ErrTimeout, ErrCanceled}
TransportErrors == DoErrors \cup ReadErrors

\* http.NewRequestWithContext(ctx, method, url, ...): its error
NewRequestErr(c, url) ==
    IF c = "nil" THEN ErrNilContext
    ELSE IF url = BadURL THEN ErrParseURL
    ELSE NilErr

\* SendRequestAfterRead that drops the body when it does not parse, as the
\* earlier error returns do.
SendRequestAfterRead_DropsBody(bytes, status) ==
    IF status # successStatusCode /\ UnmarshalMap(bytes).err # NilErr
    THEN [response |-> NilBytes, statusCode |-> status, err |-> UnmarshalMap(bytes).err]
    ELSE [response |-> bytes, statusCode |-> status, err |-> NilErr]

\* SendRequest from the status check on, the body read in full.
SendRequestAfterRead(bytes, status) ==
    IF status # successStatusCode /\ UnmarshalMap(bytes).err # NilErr
    THEN [response |-> bytes, statusCode |-> status, err |-> UnmarshalMap(bytes).err]
    ELSE [response |-> bytes, statusCode |-> status, err |-> NilErr]

(***************************************************************************)
(* ExecuteQuery                                                            *)
(***************************************************************************)
\* json.Marshal(map[string]interface{}{"query": query, "variables": variables})
MarshalRequest(q, v) ==
    IF "unsupported" \in v
    THEN [err |-> ErrMarshal, val |-> NoBody]
    ELSE [err |-> NilErr, val |-> [query |-> q, variables |-> v]]

RequestHeaders(c) ==
    ("Content-Type" :> "application/json") @@ ("Authorization" :> c.APIKey)

\* HTTPErrorResponse whose message leaves the status code out.
HTTPErrorResponse_NoStatus(e, status) ==
    [Data |-> NilBytes, StatusCode |-> status,
     Error |-> <<"HTTP error: ">> \o FormatErr(e),
     HasNextPage |-> FALSE, HasPrevPage |-> FALSE,
     NextPageFunc |-> NilFunc, PrevPageFunc |-> NilFunc]

\* &QueryResponse{StatusCode: statusCode, Error: fmt.Sprintf(...)}
HTTPErrorResponse(e, status) ==
    [Data |-> NilBytes, StatusCode |-> status, Error |-> HTTPErrorString(e, status),
     HasNextPage |-> FALSE, HasPrevPage |-> FALSE,
     NextPageFunc |-> NilFunc, PrevPageFunc |-> NilFunc]

\* APIErrorResponse that reports an errors field holding null or an empty list as
\* no error.
APIErrorResponse_EmptyIsNone(errorField, status) ==
    [Data |-> NilBytes, StatusCode |-> status,
     Error |-> IF errorField \in {JNull, JArr(<<>>)} THEN <<>> ELSE Serialize(errorField),
     HasNextPage |-> FALSE, HasPrevPage |-> FALSE,
     NextPageFunc |-> NilFunc, PrevPageFunc |-> NilFunc]

\* &QueryResponse{Data: nil, StatusCode: statusCode, Error: string(errorField)}
APIErrorResponse(errorField, status) ==
    [Data |-> NilBytes, StatusCode |-> status, Error |-> Serialize(errorField),
     HasNextPage |-> FALSE, HasPrevPage |-> FALSE,
     NextPageFunc |-> NilFunc, PrevPageFunc |-> NilFunc]

\* DataResponse that keeps the whole response body as Data.
DataResponse_WholeBody(respData, status) ==
    [Data |-> JObj(respData), StatusCode |-> status, Error |-> <<>>,
     HasNextPage |-> FALSE, HasPrevPage |-> FALSE,
     NextPageFunc |-> NilFunc, PrevPageFunc |-> NilFunc]

\* &QueryResponse{Data: respData["data"], StatusCode: statusCode}; indexing the
\* map with a key it lacks yields the nil RawMessage.
DataResponse(respData, status) ==
    [Data |-> IF "data" \in DOMAIN respData THEN respData["data"] ELSE NilBytes,
     StatusCode |-> status, Error |-> <<>>,
     HasNextPage |-> FALSE, HasPrevPage |-> FALSE,
     NextPageFunc |-> NilFunc, PrevPageFunc |-> NilFunc]

\* ExecuteQueryAfterSend that returns an error of SendRequest as its own error.
ExecuteQueryAfterSend_ReturnsErr(bytes, status, e) ==
    IF e # NilErr THEN [resp |-> NilResponse, err |-> e]
    ELSE IF status # successStatusCode
    THEN [resp |-> HTTPErrorResponse(e, status), err |-> NilErr]
    ELSE LET m == UnmarshalMap(bytes)
         IN  IF m.err # NilErr THEN [resp |-> NilResponse, err |-> m.err]
             ELSE IF "errors" \in DOMAIN m.val
             THEN [resp |-> APIErrorResponse(m.val["errors"], status), err |-> NilErr]
             ELSE [resp |-> DataResponse(m.val, status), err |-> NilErr]

\* The pageInfo a data value carries at TokenBalances.pageInfo, if any.
HasPageInfo(d) ==
    /\ HasKey(d, "TokenBalances")
    /\ HasKey(d.fields["TokenBalances"], "pageInfo")
PageInfoOf(d) == d.fields["TokenBalances"].fields["pageInfo"]
PageFlag(d, k) == HasPageInfo(d) /\ HasKey(PageInfoOf(d), k) /\ PageInfoOf(d).fields[k] = JBool(TRUE)

\* ExecuteQueryAfterSend with the pagination the comments describe: flags read
\* from pageInfo, a continuation for each flag that is true.
ExecuteQueryAfterSend_Paginates(bytes, status, e) ==
    IF e # NilErr \/ status # successStatusCode
    THEN [resp |-> HTTPErrorResponse(e, status), err |-> NilErr]
    ELSE LET m == UnmarshalMap(bytes)
         IN  IF m.err # NilErr THEN [resp |-> NilResponse, err |-> m.err]
             ELSE IF "errors" \in DOMAIN m.val
             THEN [resp |-> APIErrorResponse(m.val["errors"], status), err |-> NilErr]
             ELSE LET r == DataResponse(m.val, status)
                      n == PageFlag(r.Data, "hasNextPage")
                      p == PageFlag(r.Data, "hasPrevPage")
                  IN  [resp |-> [r EXCEPT !.HasNextPage = n, !.HasPrevPage = p,
                                          !.NextPageFunc = IF n THEN "next" ELSE NilFunc,
                                          !.PrevPageFunc = IF p THEN "prev" ELSE NilFunc],
                       err |-> NilErr]

\* ExecuteQuery from the return of SendRequest on.
ExecuteQueryAfterSend(bytes, status, e) ==
    IF e # NilErr \/ status # successStatusCode
    THEN [resp |-> HTTPErrorResponse(e, status), err |-> NilErr]
    ELSE LET m == UnmarshalMap(bytes)
         IN  IF m.err # NilErr THEN [resp |-> NilResponse, err |-> m.err]
             ELSE IF "errors" \in DOMAIN m.val
             THEN [resp |-> APIErrorResponse(m.val["errors"], status), err |-> NilErr]
             ELSE [resp |-> DataResponse(m.val, status), err |-> NilErr]

(***************************************************************************)
(* GetTokenBalances                                                        *)
(***************************************************************************)
\* GetTokenBalances from the return of ExecuteQuery on.
GetTokenBalancesAfterQuery(resp, e) ==
    IF e # NilErr THEN [balances |-> NilBalances, err |-> e]
    ELSE LET d == UnmarshalRespData(resp.Data)
         IN  IF d.err # NilErr THEN [balances |-> NilBalances, err |-> d.err]
             ELSE [balances |-> d.val, err |-> NilErr]

(***************************************************************************)
(* Actions: one call, step by step.                                        *)
(***************************************************************************)
\* The caller invokes ExecuteQuery(ctx, q, v) or GetTokenBalances(ctx, v) on c.
Call(o, c, x, q, v) ==
    /\ pc \in {"idle", "returned"}
    /\ o = "GetTokenBalances" => q = TokenBalanceQuery
    /\ pc' = "marshal"
    /\ op' = o
    /\ client' = c
    /\ ctx' = x
    /\ query' = q
    /\ variables' = v
    /\ body' = NoBody
    /\ req' = NoRequest
    /\ doCalls' = <<>>
    /\ transport' = "none"
    /\ respStatus' = 0
    /\ respBody' = NilBytes
    /\ response' = NilBytes
    /\ statusCode' = 0
    /\ err' = NilErr
    /\ queryResp' = NilResponse
    /\ queryErr' = NilErr
    /\ balances' = NilBalances
    /\ balancesErr' = NilErr

\* ExecuteQuery: encode the request body; an encoding error returns at once.
Marshal ==
    /\ pc = "marshal"
    /\ LET m == MarshalRequest(query, variables)
       IN  IF m.err # NilErr
           THEN /\ queryResp' = NilResponse
                /\ queryErr' = m.err
                /\ pc' = AfterExecuteQuery
                /\ UNCHANGED body
           ELSE /\ body' = m.val
                /\ pc' = "newRequest"
                /\ UNCHANGED queryVars
    /\ UNCHANGED <<callVars, sendVars, doCalls, wrapVars>>

\* SendRequest: build the request and add the headers.
NewRequest ==
    /\ pc = "newRequest"
    /\ LET e == NewRequestErr(ctx, client.URL)
       IN  IF e # NilErr
           THEN /\ response' = NilBytes
                /\ statusCode' = 0
                /\ err' = e
                /\ pc' = "interpret"
                /\ UNCHANGED req
           ELSE /\ req' = [method |-> "POST", url |-> client.URL,
                           headers |-> RequestHeaders(client), body |-> body]
                /\ pc' = "do"
                /\ UNCHANGED <<response, statusCode, err>>
    /\ UNCHANGED <<callVars, body, doCalls, transport, respStatus, respBody, queryVars, wrapVars>>

\* DoFails that sends the request again instead of returning.
DoFails_Retry(e) ==
    /\ pc = "do"
    /\ ctx = "cancelled" => e = ErrCanceled
    /\ doCalls' = Append(doCalls, req)
    /\ transport' = "doFailed"
    /\ response' = NilBytes
    /\ statusCode' = 0
    /\ err' = e
    /\ pc' = IF Len(doCalls) = 0 THEN "do" ELSE "interpret"
    /\ UNCHANGED <<callVars, body, req, respStatus, respBody, queryVars, wrapVars>>

\* SendRequest: client.Do(req) fails with e.
DoFails(e) ==
    /\ pc = "do"
    /\ ctx = "cancelled" => e = ErrCanceled
    /\ doCalls' = Append(doCalls, req)
    /\ transport' = "doFailed"
    /\ response' = NilBytes
    /\ statusCode' = 0
    /\ err' = e
    /\ pc' = "interpret"
    /\ UNCHANGED <<callVars, body, req, respStatus, respBody, queryVars, wrapVars>>

\* SendRequest: client.Do(req) returns a response whose status is s.
DoResponds(s) ==
    /\ pc = "do"
    /\ ctx # "cancelled"
    /\ doCalls' = Append(doCalls, req)
    /\ respStatus' = s
    /\ pc' = "readAll"
    /\ UNCHANGED <<callVars, body, req, transport, respBody, response, statusCode, err,
                   queryVars, wrapVars>>

\* SendRequest: io.ReadAll(resp.Body) fails with e.
ReadFails(e) ==
    /\ pc = "readAll"
    /\ transport' = "readFailed"
    /\ response' = NilBytes
    /\ statusCode' = respStatus
    /\ err' = e
    /\ pc' = "interpret"
    /\ UNCHANGED <<callVars, body, req, doCalls, respStatus, respBody, queryVars, wrapVars>>

\* SendRequest: io.ReadAll(resp.Body) yields the whole body b; the rest of
\* SendRequest runs.
ReadCompletes(b) ==
    /\ pc = "readAll"
    /\ transport' = "complete"
    /\ respBody' = b
    /\ LET r == SendRequestAfterRead(b, respStatus)
       IN  /\ response' = r.response
           /\ statusCode' = r.statusCode
           /\ err' = r.err
    /\ pc' = "interpret"
    /\ UNCHANGED <<callVars, body, req, doCalls, respStatus, queryVars, wrapVars>>

\* ExecuteQuery: interpret what SendRequest returned and return.
Interpret ==
    /\ pc = "interpret"
    /\ LET r == ExecuteQueryAfterSend(response, statusCode, err)
       IN  /\ queryResp' = r.resp
           /\ queryErr' = r.err
    /\ pc' = AfterExecuteQuery
    /\ UNCHANGED <<callVars, body, sendVars, doCalls, wrapVars>>

\* GetTokenBalances: decode what ExecuteQuery returned and return.
Decode ==
    /\ pc = "decode"
    /\ LET r == GetTokenBalancesAfterQuery(queryResp, queryErr)
       IN  /\ balances' = r.balances
           /\ balancesErr' = r.err
    /\ pc' = "returned"
    /\ UNCHANGED <<callVars, body, sendVars, doCalls, queryVars>>

Next ==
    \/ \E o \in Operations, c \in Clients, x \in Contexts, q \in Queries, v \in VariableMaps :
          Call(o, c, x, q, v)
    \/ Marshal
    \/ NewRequest
    \/ \E e \in DoErrors : DoFails(e)
    \/ \E s \in Statuses : DoResponds(s)
    \/ \E e \in ReadErrors : ReadFails(e)
    \/ \E b \in Bodies : ReadCompletes(b)
    \/ Interpret
    \/ Decode

Spec == Init /\ [][Next]_vars

\* Every step of a call in progress is taken: client.Do and io.ReadAll end within
\* the client's timeout, everything else is straight-line code.
Step == Marshal \/ NewRequest \/ (\E e \in DoErrors : DoFails(e)) \/ (\E s \in Statuses : DoResponds(s))
        \/ (\E e \in ReadErrors : ReadFails(e)) \/ (\E b \in Bodies : ReadCompletes(b))
        \/ Interpret \/ Decode

FairSpec == Spec /\ WF_vars(Step)

(***************************************************************************)
(* Vocabulary of the properties                                            *)
(***************************************************************************)
\* ExecuteQuery has returned.
QueryReturned == pc \in {"decode", "returned"}

\* ExecuteQuery has returned an envelope.
EnvelopeReturned == QueryReturned /\ queryResp # NilResponse

ErrorSet(r) == Len(r.Error) > 0
DataPresent(r) == r.Data # NilBytes

TransportFailed == transport \in {"doFailed", "readFailed"}

\* The exchange completed: status received and body read in full.
ExchangeCompleted == transport = "complete"

\* A body encoding/json accepts for a map: a JSON object or the JSON null.
ParsesAsMapping(b) == b.t \in {"obj", "null"}

PaginationUnset(r) ==
    /\ r.HasNextPage = FALSE
    /\ r.HasPrevPage = FALSE
    /\ r.NextPageFunc = NilFunc
    /\ r.PrevPageFunc = NilFunc

(***************************************************************************)
(* C1                                                                      *)
(***************************************************************************)
\* C1: every envelope ExecuteQuery returns has exactly one of {Error set, Data
\* present}, and a StatusCode other than 200 implies Error set.
C1_ExactlyOneOfErrorAndData ==
    EnvelopeReturned =>
        /\ ErrorSet(queryResp) # DataPresent(queryResp)
        /\ queryResp.StatusCode # 200 => ErrorSet(queryResp)

(***************************************************************************)
(* C2                                                                      *)
(***************************************************************************)
\* C2 as stated: when the transport fails (client.Do fails, or the body cannot be
\* read in full), ExecuteQuery returns a call-level error and no envelope.
C2_TransportFailureIsCallLevel ==
    (QueryReturned /\ TransportFailed) =>
        /\ queryErr # NilErr
        /\ queryResp = NilResponse

\* C2 amended: when the transport fails, ExecuteQuery returns a nil call-level
\* error and an envelope that carries the failure: Error is set and contains the
\* transport error's text, Data is unset, pagination is unset, and StatusCode is
\* 0 when client.Do failed and the received status when the read failed.
C2_TransportFailureInEnvelope ==
    (QueryReturned /\ TransportFailed) =>
        /\ queryErr = NilErr
        /\ queryResp # NilResponse
        /\ err \in TransportErrors
        /\ ErrorSet(queryResp)
        /\ Contains(queryResp.Error, <<err>>)
        /\ ~DataPresent(queryResp)
        /\ PaginationUnset(queryResp)
        /\ queryResp.StatusCode = IF transport = "doFailed" THEN 0 ELSE respStatus

\* The context was cancelled before the round trip and ExecuteQuery has returned.
C2_Witness ==
    /\ pc = "returned"
    /\ op = "ExecuteQuery"
    /\ ctx = "cancelled"
    /\ transport = "doFailed"
    /\ queryErr = NilErr
    /\ Contains(queryResp.Error, <<ErrCanceled>>)

(***************************************************************************)
(* C3                                                                      *)
(***************************************************************************)
\* C3: for every completed exchange whose status is not 200, whatever the body,
\* ExecuteQuery returns no call-level error and an envelope whose Error is set
\* and contains the decimal status code, whose StatusCode is the received status
\* and whose Data is unset; 422 with {"message":"bad request"} gives an Error
\* containing "422".
C3_Non200IsEnvelopeError ==
    (QueryReturned /\ ExchangeCompleted /\ respStatus # 200) =>
        /\ queryErr = NilErr
        /\ queryResp # NilResponse
        /\ ErrorSet(queryResp)
        /\ Contains(queryResp.Error, FormatInt(respStatus))
        /\ respStatus = 422 => Contains(queryResp.Error, <<"4", "2", "2">>)
        /\ respStatus = 500 => Contains(queryResp.Error, <<"5", "0", "0">>)
        /\ queryResp.StatusCode = respStatus
        /\ ~DataPresent(queryResp)

\* The 422 scenario.
C3_Witness ==
    /\ pc = "returned"
    /\ op = "ExecuteQuery"
    /\ ExchangeCompleted
    /\ respStatus = 422
    /\ respBody = JObj("message" :> JStr("bad request"))
    /\ queryResp # NilResponse
    /\ queryResp.StatusCode = 422

(***************************************************************************)
(* C4                                                                      *)
(***************************************************************************)
\* C4: whenever the envelope of its ExecuteQuery call carries an error string,
\* GetTokenBalances returns a non-nil error and no balances.
C4_EnvelopeErrorFailsGetTokenBalances ==
    (pc = "returned" /\ op = "GetTokenBalances" /\ queryResp # NilResponse
       /\ ErrorSet(queryResp)) =>
        /\ balancesErr # NilErr
        /\ balances = NilBalances

\* HTTP 200 whose body has well-formed data beside an errors field.
C4_Witness ==
    /\ pc = "returned"
    /\ op = "GetTokenBalances"
    /\ respStatus = 200
    /\ HasKey(respBody, "errors")
    /\ HasKey(respBody, "data")
    /\ respBody.fields["data"] # JNull
    /\ queryResp # NilResponse
    /\ ErrorSet(queryResp)
    /\ balancesErr # NilErr

(***************************************************************************)
(* C5                                                                      *)
(***************************************************************************)
\* C5: for every HTTP-200 response whose body is an object with an errors key,
\* whatever its value and with or without data, ExecuteQuery returns no
\* call-level error and an envelope whose Error is the raw text of the errors
\* value, whose Data is unset and whose StatusCode is 200.
C5_ErrorsFieldIsEnvelopeError ==
    (QueryReturned /\ ExchangeCompleted /\ respStatus = 200 /\ HasKey(respBody, "errors")) =>
        /\ queryErr = NilErr
        /\ queryResp # NilResponse
        /\ queryResp.Error = Serialize(respBody.fields["errors"])
        /\ respBody.fields["errors"] = JNull => queryResp.Error = <<"null">>
        /\ respBody.fields["errors"] = JArr(<<>>) => queryResp.Error = <<"[", "]">>
        /\ ~DataPresent(queryResp)
        /\ queryResp.StatusCode = 200

\* An errors field holding null, beside a data field.
C5_Witness ==
    /\ QueryReturned
    /\ ExchangeCompleted
    /\ respStatus = 200
    /\ HasKey(respBody, "errors")
    /\ HasKey(respBody, "data")
    /\ respBody.fields["errors"] = JNull
    /\ queryResp # NilResponse
    /\ queryResp.Error = <<"null">>

(***************************************************************************)
(* C6                                                                      *)
(***************************************************************************)
\* C6: for every HTTP-200 response whose body is an object without an errors
\* key, ExecuteQuery returns no call-level error and an envelope whose Error is
\* empty, whose StatusCode is 200 and whose Data is the undecoded value of the
\* data field (no bytes when the body has no data field).
C6_DataIsRawDataField ==
    (QueryReturned /\ ExchangeCompleted /\ respStatus = 200 /\ respBody.t = "obj"
       /\ ~HasKey(respBody, "errors")) =>
        /\ queryErr = NilErr
        /\ queryResp # NilResponse
        /\ queryResp.Error = <<>>
        /\ queryResp.StatusCode = 200
        /\ queryResp.Data =
              IF HasKey(respBody, "data") THEN respBody.fields["data"] ELSE NilBytes

\* The token-balance scenario's body.
C6_Witness ==
    /\ pc = "returned"
    /\ op = "ExecuteQuery"
    /\ ExchangeCompleted
    /\ respStatus = 200
    /\ respBody = JObj("data" :> JObj("TokenBalances" :> JObj("TokenBalance" :> JArr(<<Rec1>>))))
    /\ queryResp # NilResponse
    /\ queryResp.Data = JObj("TokenBalances" :> JObj("TokenBalance" :> JArr(<<Rec1>>)))

(***************************************************************************)
(* C7                                                                      *)
(***************************************************************************)
\* SendRequest has returned after reading the whole body.
SendReturnedAfterRead == pc \in {"interpret", "decode", "returned"} /\ ExchangeCompleted

RecordKeys == {"amount", "formattedAmount", "blockchain", "tokenAddress", "tokenId"}

\* A served record with all five fields, each a JSON string.
WellFormedRecord(r) ==
    /\ r.t = "obj"
    /\ RecordKeys \subseteq DOMAIN r.fields
    /\ \A k \in RecordKeys : r.fields[k].t = "str"

\* The body has no errors field and data.TokenBalances.TokenBalance is an array
\* of well-formed records.
ServesWellFormedRecords(b) ==
    /\ b.t = "obj"
    /\ ~HasKey(b, "errors")
    /\ HasKey(b, "data")
    /\ HasKey(b.fields["data"], "TokenBalances")
    /\ HasKey(b.fields["data"].fields["TokenBalances"], "TokenBalance")
    /\ b.fields["data"].fields["TokenBalances"].fields["TokenBalance"].t = "arr"
    /\ LET items == b.fields["data"].fields["TokenBalances"].fields["TokenBalance"].items
       IN  \A k \in 1..Len(items) : WellFormedRecord(items[k])

ServedItems(b) == b.fields["data"].fields["TokenBalances"].fields["TokenBalance"].items

\* C8: when the server answers 200 with no errors field and N well-formed
\* records, GetTokenBalances returns a nil error and exactly N records, in the
\* server's order, each field equal to the served one (N = 0 included).
C8_GetTokenBalancesRoundTrips ==
    (pc = "returned" /\ op = "GetTokenBalances" /\ ExchangeCompleted /\ respStatus = 200
       /\ ServesWellFormedRecords(respBody)) =>
        /\ balancesErr = NilErr
        /\ Len(balances) = Len(ServedItems(respBody))
        /\ \A k \in 1..Len(ServedItems(respBody)) :
              LET r == ServedItems(respBody)[k].fields
              IN  /\ balances[k].Amount = r["amount"].s
                  /\ balances[k].FormattedAmount = r["formattedAmount"].s
                  /\ balances[k].Blockchain = r["blockchain"].s
                  /\ balances[k].TokenAddress = r["tokenAddress"].s
                  /\ balances[k].TokenId = r["tokenId"].s

\* Two different records, served in the order Rec2, Rec1.
C8_Witness ==
    /\ pc = "returned"
    /\ op = "GetTokenBalances"
    /\ ExchangeCompleted
    /\ respStatus = 200
    /\ ServesWellFormedRecords(respBody)
    /\ ServedItems(respBody) = <<Rec2, Rec1>>
    /\ balancesErr = NilErr
    /\ Len(balances) = 2
    /\ balances[1].Amount = "250"
    /\ balances[2].Amount = "100"
    /\ balances[2].Blockchain = "ethereum"

(***************************************************************************)
(* C9                                                                      *)
(***************************************************************************)
\* The response behind the envelope carries a pageInfo substructure.
ResponseHasPageInfo ==
    /\ ExchangeCompleted
    /\ respStatus = 200
    /\ HasKey(respBody, "data")
    /\ ~HasKey(respBody, "errors")
    /\ HasPageInfo(respBody.fields["data"])

\* C9 as stated: the pagination fields reflect the response: with a pageInfo the
\* flags are populated from it and a continuation is set exactly when its flag is
\* true; without one, and in every error envelope, flags are false and
\* continuations unset.
C9_PaginationReflectsPageInfo ==
    EnvelopeReturned =>
        IF ResponseHasPageInfo
        THEN /\ queryResp.HasNextPage = PageFlag(respBody.fields["data"], "hasNextPage")
             /\ queryResp.HasPrevPage = PageFlag(respBody.fields["data"], "hasPrevPage")
             /\ (queryResp.NextPageFunc # NilFunc) <=> queryResp.HasNextPage
             /\ (queryResp.PrevPageFunc # NilFunc) <=> queryResp.HasPrevPage
        ELSE PaginationUnset(queryResp)

\* C9 amended: in every envelope ExecuteQuery returns, whether or not the
\* response carries a pageInfo, both flags are false and both continuations are
\* unset; so a continuation is never present while its flag is false.
C9_PaginationNeverPopulated ==
    EnvelopeReturned =>
        /\ PaginationUnset(queryResp)
        /\ queryResp.NextPageFunc # NilFunc => queryResp.HasNextPage
        /\ queryResp.PrevPageFunc # NilFunc => queryResp.HasPrevPage

\* A response whose pageInfo says hasNextPage, and the envelope returned for it.
C9_Witness ==
    /\ pc = "returned"
    /\ op = "ExecuteQuery"
    /\ ResponseHasPageInfo
    /\ PageFlag(respBody.fields["data"], "hasNextPage")
    /\ queryResp # NilResponse
    /\ queryResp.Error = <<>>
    /\ queryResp.HasNextPage = FALSE

(***************************************************************************)
(* C10                                                                     *)
(***************************************************************************)
\* The request is the POST the call describes: to the client's URL, the API key
\* verbatim in Authorization, the encoded query and variables as body.
IsTheCallsRequest(r) ==
    /\ r.method = "POST"
    /\ r.url = client.URL
    /\ r.headers["Authorization"] = client.APIKey
    /\ r.headers["Content-Type"] = "application/json"
    /\ r.body = [query |-> query, variables |-> variables]

\* The call cannot build its request: the variables do not encode, the context
\* is nil, or the URL does not parse.
RequestCannotBeBuilt ==
    \/ "unsupported" \in variables
    \/ ctx = "nil"
    \/ client.URL = BadURL

\* C10 as stated: every call that has returned made exactly one round trip, the
\* POST the call describes, for every outcome.
C10_ExactlyOneRoundTrip ==
    pc = "returned" =>
        /\ Len(doCalls) = 1
        /\ IsTheCallsRequest(doCalls[1])

\* At no point of a call has more than one request been handed to client.Do, each
\* is the POST the call describes, and once ExecuteQuery has returned there is
\* exactly one unless the request could not be built, and then none.
AtMostOneRoundTrip ==
    /\ Len(doCalls) <= 1
    /\ \A k \in 1..Len(doCalls) : IsTheCallsRequest(doCalls[k])
    /\ QueryReturned => (Len(doCalls) = 0 <=> RequestCannotBeBuilt)
    /\ QueryReturned => (Len(doCalls) = 1 <=> transport # "none")

\* C10 amended: each call makes at most one round trip, the POST the call
\* describes; exactly one unless the request body cannot be encoded or the
\* request cannot be constructed, and then none; no outcome triggers a second
\* request, and the call always returns.
C10_AtMostOneRoundTripThenReturns ==
    /\ []AtMostOneRoundTrip
    /\ (pc = "marshal") ~> (pc = "returned")

\* GetTokenBalances has returned a decode error after one exchange that answered
\* 200 with a body that is not JSON.
C10_Witness ==
    /\ pc = "returned"
    /\ op = "GetTokenBalances"
    /\ ExchangeCompleted
    /\ respStatus = 200
    /\ respBody = Garbage
    /\ balancesErr # NilErr
    /\ Len(doCalls) = 1
    /\ doCalls[1].headers["Authorization"] = "Bearer k2"

=============================================================================
